---- MODULE Spec2Model ----
(***************************************************************************)
(* Tag inheritance, parent relocation and note creation of the            *)
(* vg-obsidian-commons plugin (src/src/main.ts):                           *)
(* TagService.getInheritedTags, NoteService.findTopicWithSubfolder,        *)
(* NoteService.changeNoteParent, the two commands of the plugin, the       *)
(* creation of a note from a template and the resource-type modal of the   *)
(* settings tab, over a vault of notes with frontmatter (Class, subfolder, *)
(* parent, tags), the folder tree and the plugin settings.                 *)
(*                                                                         *)
(* Strings are modelled as strings: paths are built with \o exactly as the *)
(* template literals of the source build them.  A parent field is a record *)
(* (the text of a [[path|alias]] link cannot be taken apart in TLA+), and  *)
(* the regular expression of the source is the operator ParentMatch.       *)
(***************************************************************************)
EXTENDS Integers, Sequences, FiniteSets, TLC

(***************************************************************************)
(* Bounds of the model.                                                    *)
(***************************************************************************)
\* Depth of the call stack: a recursion deeper than this ends in the
\* engine's RangeError ("Maximum call stack size exceeded").  It is larger
\* than the number of notes, so no walk over an acyclic chain reaches it.
MaxStack == 4

\* Number of operations invoked in one behaviour.
MaxCalls == 2

\* The notes of the vault, named by their basename.
Notes == {"A", "B", "C"}

\* null / undefined TFile
NoFile == "null"

(***************************************************************************)
(* Settings (main.ts 361-473).  The seven further resource types of the    *)
(* default settings (BlogResource ... YoutubeResource) differ from         *)
(* Resource in their names and folder names only and are left out.         *)
(***************************************************************************)
ResourceTypeSettings(name, folderName, templatePath, allowedParentClasses, addNameAsTag, moveOnParentChange) ==
    [name |-> name, folderName |-> folderName, templatePath |-> templatePath,
     allowedParentClasses |-> allowedParentClasses,
     addNameAsTag |-> addNameAsTag, moveOnParentChange |-> moveOnParentChange]

DEFAULT_SETTINGS ==
    [selectorIgnoreFolderName |-> "99_Organize",
     resourceTypes |->
        ("Topic" :> ResourceTypeSettings("Topic", "10_Topics",
            "99_Organize/Templates/TopicTemplate.md", <<>>, FALSE, FALSE))
     @@ ("SubTopic" :> ResourceTypeSettings("SubTopic", "00_Subtopics",
            "99_Organize/Templates/SubtopicTemplate.md", <<"Topic">>, TRUE, TRUE))
     @@ ("HowTo" :> ResourceTypeSettings("How To", "20_HowTos",
            "99_Organize/Templates/HowToTemplate.md", <<"Topic", "SubTopic">>, FALSE, TRUE))
     @@ ("Resource" :> ResourceTypeSettings("Resource", "30_Resources",
            "99_Organize/Templates/20_Resources/ResourceTemplate.md",
            <<"Topic", "SubTopic">>, FALSE, TRUE))]

\* The configuration ResourceTypeModal.saveResourceType builds from its
\* inputs (main.ts 1388-1395): it has no moveOnParentChange field.
NewConfig(name, folderName, templatePath, allowedParents, addNameAsTag) ==
    [name |-> name, folderName |-> folderName, templatePath |-> templatePath,
     allowedParentClasses |-> allowedParents, addNameAsTag |-> addNameAsTag]

\* settings.resourceTypes[key] = config  (main.ts 650)
AddResourceType(st, key, config) ==
    [st EXCEPT !.resourceTypes =
        [k \in DOMAIN st.resourceTypes \cup {key} |->
            IF k = key THEN config ELSE st.resourceTypes[k]]]

\* The default settings after the SubTopic type was saved again, unchanged,
\* in the settings tab
ResavedSettings ==
    LET old == DEFAULT_SETTINGS.resourceTypes["SubTopic"]
    IN  AddResourceType(DEFAULT_SETTINGS, "SubTopic",
            NewConfig(old.name, old.folderName, old.templatePath,
                      old.allowedParentClasses, old.addNameAsTag))

(***************************************************************************)
(* State.                                                                  *)
(*   vault    : note -> [path, Class, subfolder, parent, tags, rest], the  *)
(*              stored content of each note and its path (the metadata     *)
(*              cache is the parsed content).  An absent frontmatter       *)
(*              string field is "" (undefined and "" are both falsy in the *)
(*              source); rest is every other frontmatter key together with *)
(*              the text below the frontmatter.                            *)
(*   folders  : the folder paths that exist in the vault                   *)
(*   settings : the plugin settings                                        *)
(*   ret      : the outcome of the last call of a query                    *)
(*   hist     : the last changeNoteParent call: its arguments, what it     *)
(*              read, the storage calls it issued and how it ended         *)
(*   calls    : number of operations invoked so far                        *)
(*   running  : the changeNoteParent invocations in flight, each with its  *)
(*              position (the storage call it awaits next) and what it has *)
(*              computed                                                   *)
(***************************************************************************)
VARIABLES vault, folders, settings, ret, hist, calls, running

vars == <<vault, folders, settings, ret, hist, calls, running>>

(***************************************************************************)
(* Frontmatter values.                                                     *)
(***************************************************************************)
\* parent field: absent, a link token [[path|alias]], or any other text
NoParent == [kind |-> "absent", path |-> ""]
OtherText == [kind |-> "text", path |-> ""]

\* `[[${file.path}|${file.basename}]]`  (main.ts 945, 607)
FormatLink(path, basename) == [kind |-> "link", path |-> path]

\* parent.match(/\[\[(.*?)(?:\|.*?)?\]\]/): the captured link path, or no
\* match (main.ts 800, 911, 932)
ParentMatch(parent) ==
    IF parent.kind = "link" THEN [matched |-> TRUE, path |-> parent.path]
    ELSE [matched |-> FALSE, path |-> ""]

\* the path of the file `basename`.md that lies in the folder `dir`
PathInFolder(dir, basename) == dir \o "/" \o basename \o ".md"

\* tags field: absent, a single string, or a list
NoTags == [kind |-> "absent", val |-> <<>>]
TagString(t) == [kind |-> "string", val |-> <<t>>]
TagList(s) == [kind |-> "array", val |-> s]

\* Mutant of TagsArray: an absent field is wrapped like a single string
TagsArrayWrapsAbsent(tags) == IF tags.kind = "absent" THEN <<"undefined">> ELSE tags.val

\* Array.isArray(tags) ? tags : [tags], after `tags || []` (main.ts 792-794,
\* 928-929)
TagsArray(tags) == IF tags.kind = "absent" THEN <<>> ELSE tags.val

Range(s) == {s[i] : i \in 1..Len(s)}

NoDuplicates(s) == \A i, j \in 1..Len(s) : s[i] = s[j] => i = j

\* Mutant of SetAdd: an array push instead of a Set
SetAddAlways(s, t) == Append(s, t)

\* Set.add on an insertion-ordered Set
SetAdd(s, t) == IF t \in Range(s) THEN s ELSE Append(s, t)

\* items.forEach(t => set.add(t)), [...new Set(items)]
RECURSIVE AddAll(_, _)
AddAll(s, items) ==
    IF items = <<>> THEN s ELSE AddAll(SetAdd(s, Head(items)), Tail(items))

(***************************************************************************)
(* Host: link resolution.  The links the plugin writes carry the full      *)
(* vault path of the target, so a link resolves to the note at that path.  *)
(***************************************************************************)
GetFirstLinkpathDest(v, linkpath, sourcePath) ==
    IF \E n \in DOMAIN v : v[n].path = linkpath
    THEN CHOOSE n \in DOMAIN v : v[n].path = linkpath
    ELSE NoFile

\* The note a parent field resolves to, or null (main.ts 799-803, 910-914)
ParentOf(v, file) ==
    LET parentMatch == ParentMatch(v[file].parent)
    IN  IF parentMatch.matched
        THEN GetFirstLinkpathDest(v, parentMatch.path, v[file].path)
        ELSE NoFile

(***************************************************************************)
(* The ancestry of a note, as a set: the notes reached from it by          *)
(* following resolvable parent links, the note itself included.            *)
(***************************************************************************)
RECURSIVE Closure(_, _, _)
Closure(v, S, k) ==
    IF k = 0 THEN S
    ELSE Closure(v, S \cup ({ParentOf(v, n) : n \in S} \ {NoFile}), k - 1)

Chain(v, file) == Closure(v, {file}, Cardinality(DOMAIN v))

ProperAncestors(v, file) ==
    IF ParentOf(v, file) = NoFile THEN {} ELSE Chain(v, ParentOf(v, file))

\* no note on the chain of `file` is its own ancestor
AcyclicChain(v, file) == \A n \in Chain(v, file) : n \notin ProperAncestors(v, n)

Acyclic(v) == \A n \in DOMAIN v : n \notin ProperAncestors(v, n)

OwnTags(v, file) == Range(TagsArray(v[file].tags))

(***************************************************************************)
(* TagService (main.ts 776-812).                                           *)
(***************************************************************************)
TagUniverse == {"x", "y", "z"}

\* Mutant of Prefix: a namespace is configured
PrefixNamespaced == "p"

\* the namespace prefix of getInheritedTags (main.ts 788)
Prefix == ""

\* tag.contains(prefix): within the tags of the model, the strings that
\* contain a prefix are the prefix itself and the tags already prefixed
Contains(tag, sub) ==
    \/ tag = sub
    \/ \E t \in TagUniverse : tag = sub \o "/" \o t

PrefixTag(prefix, tag) ==
    IF prefix = "" THEN tag
    ELSE IF Contains(tag, prefix) THEN tag
    ELSE prefix \o "/" \o tag

PrefixAll(prefix, s) == [i \in 1..Len(s) |-> PrefixTag(prefix, s[i])]

\* Mutant of IsTFile: the resolved parent is not checked
IsTFileUnchecked(f) == TRUE

\* parentFile instanceof TFile (main.ts 803)
IsTFile(f) == f # NoFile

\* getInheritedTags(file), called at stack depth `depth`.  err is "" when
\* the call returns, "RangeError" when the recursion exhausts the stack and
\* "TypeError" when file is null (getFileCache reads file.path).
RECURSIVE GetInheritedTags(_, _, _)
GetInheritedTags(v, file, depth) ==
    IF file = NoFile THEN [err |-> "TypeError", tags |-> <<>>]
    ELSE IF depth > MaxStack THEN [err |-> "RangeError", tags |-> <<>>]
    ELSE
        LET fm == v[file]
            own == AddAll(<<>>, PrefixAll(Prefix, TagsArray(fm.tags)))
            parentFile == ParentOf(v, file)
        IN  IF ~IsTFile(parentFile) THEN [err |-> "", tags |-> own]
            ELSE
                LET parentTags == GetInheritedTags(v, parentFile, depth + 1)
                IN  IF parentTags.err # "" THEN parentTags
                    ELSE [err |-> "",
                          tags |-> AddAll(own, PrefixAll(Prefix, parentTags.tags))]

(***************************************************************************)
(* NoteService.findTopicWithSubfolder (main.ts 902-921).  sub = "" is the  *)
(* null result.                                                            *)
(***************************************************************************)
\* Mutant of IsTopicWithSubfolder: the subfolder is not asked for
IsTopicOnly(fm) == fm.Class = "Topic"

\* frontmatter?.Class === 'Topic' && frontmatter.subfolder (main.ts 906)
IsTopicWithSubfolder(fm) == fm.Class = "Topic" /\ fm.subfolder # ""

RECURSIVE FindTopicWithSubfolder(_, _, _)
FindTopicWithSubfolder(v, file, depth) ==
    IF depth > MaxStack THEN [err |-> "RangeError", sub |-> ""]
    ELSE
        LET fm == v[file]
            parentFile == ParentOf(v, file)
        IN  IF IsTopicWithSubfolder(fm)
            THEN [err |-> "", sub |-> fm.subfolder]
            ELSE IF parentFile # NoFile
            THEN FindTopicWithSubfolder(v, parentFile, depth + 1)
            ELSE [err |-> "", sub |-> ""]

(***************************************************************************)
(* Host: storage.                                                          *)
(***************************************************************************)
\* vault.adapter.exists(dir)
Exists(fs, dir) == dir \in fs

\* vault.createFolder(dir)
CreateFolder(fs, dir) == fs \cup {dir}

\* fileManager.renameFile(file, newPath): the file gets the new path; when
\* the user lets the host update links, every link to the old path in the
\* vault is rewritten to the new path
RenameFile(v, file, newPath, updateLinks) ==
    [n \in DOMAIN v |->
        LET moved == IF n = file THEN [v[n] EXCEPT !.path = newPath] ELSE v[n]
        IN  IF updateLinks /\ moved.parent.kind = "link"
               /\ moved.parent.path = v[file].path
            THEN [moved EXCEPT !.parent.path = newPath]
            ELSE moved]

\* Mutant of Modify: the text below the frontmatter is not written back
ModifyFrontmatterOnly(v, file, content) ==
    [v EXCEPT ![file] = [content EXCEPT !.path = v[file].path, !.rest = ""]]

\* vault.modify(file, content): the content of the note is replaced, its
\* path is kept
Modify(v, file, content) ==
    [v EXCEPT ![file] = [content EXCEPT !.path = v[file].path]]

(***************************************************************************)
(* NoteService.changeNoteParent (main.ts 923-979).                         *)
(***************************************************************************)
StorageCalls == {"createFolder", "renameFile", "modify"}

NoTagsResult == [err |-> "", tags |-> <<>>]
NoSubResult == [err |-> "", sub |-> ""]

\* The inherited tags of the note's current parent (main.ts 932-937)
OldInheritedTags(v, activeFile) ==
    IF ParentMatch(v[activeFile].parent).matched
    THEN GetInheritedTags(v, ParentOf(v, activeFile), 0)
    ELSE NoTagsResult

\* Mutant of MoveOnParentChange: a type without the option moves
MoveOnParentChangeUnlessFalse(st, class) ==
    /\ class \in DOMAIN st.resourceTypes
    /\ ("moveOnParentChange" \in DOMAIN st.resourceTypes[class]
            => st.resourceTypes[class].moveOnParentChange)

\* settings.resourceTypes[frontmatter.Class]?.moveOnParentChange
\* (main.ts 949-950): false when the class has no entry or the entry has no
\* such field
MoveOnParentChange(st, class) ==
    /\ class \in DOMAIN st.resourceTypes
    /\ "moveOnParentChange" \in DOMAIN st.resourceTypes[class]
    /\ st.resourceTypes[class].moveOnParentChange

\* Mutant of CustomTags: the old inherited tags are not removed
CustomTagsKeepAll(currentTagsArray, oldInheritedTags) == currentTagsArray

\* currentTagsArray.filter(tag => !oldInheritedTags.includes(tag))
\* (main.ts 940)
CustomTags(currentTagsArray, oldInheritedTags) ==
    SelectSeq(currentTagsArray, LAMBDA t : t \notin Range(oldInheritedTags))

\* Mutant of MergeTags: the custom tags are not written
MergeTagsInheritedOnly(customTags, newInheritedTags) == AddAll(<<>>, newInheritedTags)

\* [...new Set([...customTags, ...newInheritedTags])]  (main.ts 944)
MergeTags(customTags, newInheritedTags) ==
    AddAll(<<>>, customTags \o newInheritedTags)

\* Mutant of SubtopicPath: the folder of the SubTopic is left out
SubtopicPathNever(v, newParent) == ""

\* newParentFrontmatter?.Class === 'SubTopic' ? `/${newParent.basename}` : ''
\* (main.ts 957-959)
SubtopicPath(v, newParent) ==
    IF v[newParent].Class = "SubTopic" THEN "/" \o newParent ELSE ""

\* `${topicSubfolder}/${resourceType.folderName}${subtopicPath}`
\* (main.ts 963)
NewDir(topicSubfolder, folderName, subtopicPath) ==
    topicSubfolder \o "/" \o folderName \o subtopicPath

\* Mutant of NewPath: the path of the note is used for its basename
NewPathFromPath(v, newDir, activeFile) == newDir \o "/" \o v[activeFile].path

\* `${newDir}/${activeFile.basename}.md`  (main.ts 960)
NewPath(v, newDir, activeFile) == newDir \o "/" \o activeFile \o ".md"

\* Everything changeNoteParent computes before its first storage call
\* (main.ts 924-963), from the results of its three walks.  A walk that
\* throws ends the call: the walks after it are not made.  reads lists the
\* reads of the call in the order they are made: vault.read, the walks,
\* the cache of the new parent and adapter.exists.
ChangePlan(v, st, activeFile, newParent, oldInheritedTags, newInheritedTags, topicSubfolder) ==
    LET frontmatter == v[activeFile]
        customTags == CustomTags(TagsArray(frontmatter.tags), oldInheritedTags.tags)
        wantsMove == MoveOnParentChange(st, frontmatter.Class)
        newDir ==
            IF wantsMove
            THEN NewDir(topicSubfolder.sub,
                        st.resourceTypes[frontmatter.Class].folderName,
                        SubtopicPath(v, newParent))
            ELSE ""
        newPath == NewPath(v, newDir, activeFile)
        thrown ==
            IF oldInheritedTags.err # "" THEN oldInheritedTags.err
            ELSE IF newInheritedTags.err # "" THEN newInheritedTags.err
            ELSE topicSubfolder.err
        reads ==
            <<"read">>
            \o (IF ParentMatch(frontmatter.parent).matched
                THEN <<"getInheritedTags">> ELSE <<>>)
            \o (IF oldInheritedTags.err = "" THEN <<"getInheritedTags">> ELSE <<>>)
            \o (IF wantsMove /\ oldInheritedTags.err = "" /\ newInheritedTags.err = ""
                THEN <<"findTopicWithSubfolder">> ELSE <<>>)
            \o (IF wantsMove /\ thrown = "" /\ topicSubfolder.sub # ""
                THEN <<"getFileCache">> ELSE <<>>)
            \o (IF wantsMove /\ thrown = "" /\ topicSubfolder.sub # ""
                    /\ newPath # frontmatter.path
                THEN <<"exists">> ELSE <<>>)
    IN  [thrown |-> thrown,
         reads |-> reads,
         oldInheritedTags |-> oldInheritedTags.tags,
         customTags |-> customTags,
         newInheritedTags |-> newInheritedTags.tags,
         updatedContent |->
            [frontmatter EXCEPT
                !.tags = TagList(MergeTags(customTags, newInheritedTags.tags)),
                !.parent = FormatLink(v[newParent].path, newParent)],
         wantsMove |-> wantsMove,
         topicSubfolder |-> topicSubfolder.sub,
         newDir |-> newDir,
         newPath |-> newPath,
         relocate |-> wantsMove /\ thrown = "" /\ topicSubfolder.sub # ""
                        /\ newPath # frontmatter.path]

\* Mutant of PlanCalls: the content is written before the note is moved
PlanCallsWriteFirst(plan, fs) ==
    IF plan.thrown # "" THEN <<>>
    ELSE IF plan.relocate
    THEN <<"modify">>
            \o (IF Exists(fs, plan.newDir) THEN <<>> ELSE <<"createFolder">>)
            \o <<"renameFile">>
    ELSE <<"modify">>

\* Mutant of PlanCalls: a skipped relocation ends the call without a write
PlanCallsSkipAbandons(plan, fs) ==
    IF plan.thrown # "" THEN <<>>
    ELSE IF plan.relocate
    THEN (IF Exists(fs, plan.newDir) THEN <<>> ELSE <<"createFolder">>)
            \o <<"renameFile", "modify">>
    ELSE IF plan.wantsMove /\ plan.topicSubfolder = "" THEN <<>>
    ELSE <<"modify">>

\* Mutant of PlanCalls: a move is made whenever a Topic subfolder is found
PlanCallsMoveAlways(plan, fs) ==
    IF plan.thrown # "" THEN <<>>
    ELSE IF plan.wantsMove /\ plan.topicSubfolder # ""
    THEN (IF Exists(fs, plan.newDir) THEN <<>> ELSE <<"createFolder">>)
            \o <<"renameFile", "modify">>
    ELSE <<"modify">>

\* Mutant of PlanCalls: the folder is created without asking for it
PlanCallsCreateAlways(plan, fs) ==
    IF plan.thrown # "" THEN <<>>
    ELSE IF plan.relocate THEN <<"createFolder", "renameFile", "modify">>
    ELSE <<"modify">>

\* The storage calls of a plan, in the order they are issued
\* (main.ts 964-979).
PlanCalls(plan, fs) ==
    IF plan.thrown # "" THEN <<>>
    ELSE IF plan.relocate
    THEN (IF Exists(fs, plan.newDir) THEN <<>> ELSE <<"createFolder">>)
            \o <<"renameFile", "modify">>
    ELSE <<"modify">>

\* Mutant of WrittenContent: the link is built when the content is written
WrittenContentLateLink(plan, v, newParent) ==
    [plan.updatedContent EXCEPT !.parent = FormatLink(v[newParent].path, newParent)]

\* The content vault.modify is given is the string built before the first
\* storage call (main.ts 947, 971, 979), whatever the vault `v` has become
WrittenContent(plan, v, newParent) == plan.updatedContent

\* The calls issued when the call `fail` throws ("none": no call throws)
IssuedCalls(planned, fail) ==
    IF fail \in Range(planned)
    THEN SubSeq(planned, 1, CHOOSE i \in 1..Len(planned) : planned[i] = fail)
    ELSE planned

\* The host has links to rewrite when a note other than the renamed one
\* links to its path
LinkedFrom(v, file) ==
    \E n \in DOMAIN v \ {file} :
        v[n].parent.kind = "link" /\ v[n].parent.path = v[file].path

\* changeNoteParent(activeFile, newParent).  `fail` is the storage call that
\* throws in this run, if any; `updateLinks` is the host rewriting the links
\* to a renamed file.
ChangeNoteParent(activeFile, newParent) ==
    /\ calls < MaxCalls
    /\ \E oldInheritedTags \in {OldInheritedTags(vault, activeFile)} :
       \E newInheritedTags \in
            {IF oldInheritedTags.err # "" THEN NoTagsResult
             ELSE GetInheritedTags(vault, newParent, 0)} :
       \E topicSubfolder \in
            {IF /\ MoveOnParentChange(settings, vault[activeFile].Class)
                /\ oldInheritedTags.err = "" /\ newInheritedTags.err = ""
             THEN FindTopicWithSubfolder(vault, newParent, 0)
             ELSE NoSubResult} :
       \E plan \in {ChangePlan(vault, settings, activeFile, newParent,
                                oldInheritedTags, newInheritedTags, topicSubfolder)} :
       \E planned \in {PlanCalls(plan, folders)} :
        /\ \E fail \in {"none"} \cup Range(planned), updateLinks \in BOOLEAN :
            LET issued == IssuedCalls(planned, fail)
                done == Range(issued) \ {fail}
                afterRename ==
                    IF "renameFile" \in done
                    THEN RenameFile(vault, activeFile, plan.newPath, updateLinks)
                    ELSE vault
                afterModify ==
                    IF "modify" \in done
                    THEN Modify(afterRename, activeFile,
                                WrittenContent(plan, afterRename, newParent))
                    ELSE afterRename
            IN  /\ updateLinks => "renameFile" \in done /\ LinkedFrom(vault, activeFile)
                /\ vault' = afterModify
                /\ folders' = IF "createFolder" \in done
                              THEN CreateFolder(folders, plan.newDir) ELSE folders
                /\ hist' = [op |-> "changeNoteParent",
                            file |-> activeFile,
                            newParent |-> newParent,
                            status |-> IF plan.thrown = "" /\ fail = "none"
                                       THEN "ok" ELSE "error",
                            err |-> IF plan.thrown # "" THEN plan.thrown
                                    ELSE IF fail # "none" THEN fail ELSE "",
                            pre |-> vault,
                            preFolders |-> folders,
                            plan |-> plan,
                            io |-> issued,
                            steps |-> plan.reads \o issued,
                            sameParent |-> ParentOf(vault, activeFile) = newParent,
                            again |-> /\ hist.op = "changeNoteParent"
                                      /\ hist.status = "ok"
                                      /\ hist.file = activeFile
                                      /\ hist.newParent = newParent
                                      /\ hist.sameParent]
        /\ calls' = calls + 1
        /\ UNCHANGED <<settings, ret, running>>

(***************************************************************************)
(* changeNoteParent, one storage call at a time.  Every storage call of    *)
(* main.ts 923-979 is awaited, so a second invocation can run between two  *)
(* of them.  The reads up to adapter.exists are made from resolved data    *)
(* and run together; after a rename the file is looked up at its new path  *)
(* and vault.modify is issued for that path at once.                       *)
(***************************************************************************)
Invocation(activeFile, newParent) ==
    [pc |-> "start", file |-> activeFile, newParent |-> newParent,
     plan |-> <<>>, at |-> "", target |-> "", status |-> "", copy |-> ""]

Ended(inv, status) == [inv EXCEPT !.pc = "done", !.status = status]

\* vault.read, the walks and the paths (main.ts 924-963)
Begin(i) ==
    /\ running[i].pc = "start"
    /\ LET inv == running[i]
           oldInheritedTags == OldInheritedTags(vault, inv.file)
           newInheritedTags ==
                IF oldInheritedTags.err # "" THEN NoTagsResult
                ELSE GetInheritedTags(vault, inv.newParent, 0)
           topicSubfolder ==
                IF /\ MoveOnParentChange(settings, vault[inv.file].Class)
                   /\ oldInheritedTags.err = "" /\ newInheritedTags.err = ""
                THEN FindTopicWithSubfolder(vault, inv.newParent, 0)
                ELSE NoSubResult
           plan == ChangePlan(vault, settings, inv.file, inv.newParent,
                              oldInheritedTags, newInheritedTags, topicSubfolder)
           read == [inv EXCEPT !.plan = plan, !.at = vault[inv.file].path,
                               !.target = vault[inv.file].path]
       IN  running' = [running EXCEPT ![i] =
                IF plan.thrown # "" THEN Ended(read, "error")
                ELSE IF plan.relocate THEN [read EXCEPT !.pc = "exists"]
                ELSE [read EXCEPT !.pc = "modify"]]
    /\ UNCHANGED <<vault, folders, settings, ret, hist, calls>>

\* adapter.exists(newDir) resolves (main.ts 964)
CheckExists(i) ==
    /\ running[i].pc = "exists"
    /\ running' = [running EXCEPT ![i].pc =
            IF Exists(folders, running[i].plan.newDir)
            THEN "renameFile" ELSE "createFolder"]
    /\ UNCHANGED <<vault, folders, settings, ret, hist, calls>>

\* vault.createFolder(newDir) (main.ts 965); it throws when the folder has
\* come to exist
DoCreateFolder(i) ==
    /\ running[i].pc = "createFolder"
    /\ IF Exists(folders, running[i].plan.newDir)
       THEN /\ running' = [running EXCEPT ![i] = Ended(running[i], "error")]
            /\ UNCHANGED folders
       ELSE /\ folders' = CreateFolder(folders, running[i].plan.newDir)
            /\ running' = [running EXCEPT ![i].pc = "renameFile"]
    /\ UNCHANGED <<vault, settings, ret, hist, calls>>

\* fileManager.renameFile(activeFile, newPath) (main.ts 968): the file is
\* moved from where it is now; it throws when the file is at newPath
\* already.  The file is then found at newPath and vault.modify issued.
DoRenameFile(i) ==
    /\ running[i].pc = "renameFile"
    /\ LET inv == running[i]
       IN  IF vault[inv.file].path = inv.plan.newPath
           THEN /\ running' = [running EXCEPT ![i] = Ended(inv, "error")]
                /\ UNCHANGED vault
           ELSE \E updateLinks \in BOOLEAN :
                /\ updateLinks => LinkedFrom(vault, inv.file)
                /\ vault' = RenameFile(vault, inv.file, inv.plan.newPath, updateLinks)
                /\ running' = [running EXCEPT ![i].pc = "modify",
                                              ![i].target = inv.plan.newPath]
    /\ UNCHANGED <<folders, settings, ret, hist, calls>>

\* vault.modify(file, updatedContent) (main.ts 971, 979).  When the note
\* has been moved since the write was issued, the write either reaches the
\* note where it is now or leaves a copy at the path it was issued for.
DoModify(i) ==
    /\ running[i].pc = "modify"
    /\ LET inv == running[i]
           written == Modify(vault, inv.file,
                             WrittenContent(inv.plan, vault, inv.newParent))
       IN  IF vault[inv.file].path = inv.target
           THEN /\ vault' = written
                /\ running' = [running EXCEPT ![i] = Ended(inv, "ok")]
           ELSE \/ /\ vault' = written
                   /\ running' = [running EXCEPT ![i] = Ended(inv, "ok")]
                \/ /\ UNCHANGED vault
                   /\ running' = [running EXCEPT ![i] =
                            Ended([inv EXCEPT !.copy = inv.target], "ok")]
    /\ UNCHANGED <<folders, settings, ret, hist, calls>>

(***************************************************************************)
(* Names typed into the InputModal.  A name is the sequence of its         *)
(* characters, so that lowercasing and the replacement of whitespace runs  *)
(* are computed; Join gives the string used in paths and tags.             *)
(***************************************************************************)
\* the value a dismissed InputModal resolves with (main.ts 494); in a
\* template literal null reads "null"
NoName == <<"null">>

RECURSIVE Join(_)
Join(cs) == IF cs = <<>> THEN "" ELSE Head(cs) \o Join(Tail(cs))

\* String.prototype.toLowerCase, on the characters of the model
LowerChar(c) ==
    CASE c = "D" -> "d" [] c = "M" -> "m" [] c = "N" -> "n" [] OTHER -> c

ToLowerCase(cs) == [i \in 1..Len(cs) |-> LowerChar(cs[i])]

\* \s
IsSpace(c) == c \in {" ", "\t"}

RECURSIVE DropSpaces(_)
DropSpaces(cs) ==
    IF cs # <<>> /\ IsSpace(Head(cs)) THEN DropSpaces(Tail(cs)) ELSE cs

\* replace(/\s+/g, '_')  (main.ts 729)
RECURSIVE ReplaceSpaceRuns(_)
ReplaceSpaceRuns(cs) ==
    IF cs = <<>> THEN <<>>
    ELSE IF IsSpace(Head(cs)) THEN <<"_">> \o ReplaceSpaceRuns(DropSpaces(cs))
    ELSE <<Head(cs)>> \o ReplaceSpaceRuns(Tail(cs))

\* noteName.toLowerCase().replace(/\s+/g, '_')  (main.ts 729)
FormattedTag(noteName) == Join(ReplaceSpaceRuns(ToLowerCase(noteName)))

\* Mutant of NameGiven: the name is not checked
NameGivenUnchecked(resourceName) == TRUE

\* !resourceName is false (main.ts 666, 682): the name is neither null nor
\* the empty string
NameGiven(resourceName) == resourceName # NoName /\ resourceName # <<>>

(***************************************************************************)
(* Templates (TemplateService, main.ts 711-745).  The template files of    *)
(* the Topic, SubTopic and HowTo types exist; the one of the Resource type *)
(* does not.  A template declares the class of its type and two tags.      *)
(***************************************************************************)
TemplateTags == <<"t", "x">>

Templates ==
    [k \in {"Topic", "SubTopic", "HowTo"} |->
        [Class |-> k, subfolder |-> "", parent |-> NoParent,
         tags |-> TagList(TemplateTags), rest |-> "template of " \o k]]

TemplatePaths == {DEFAULT_SETTINGS.resourceTypes[k].templatePath : k \in DOMAIN Templates}

\* loadTemplate(templatePath) and vault.read of the file found: found is
\* false for null  (main.ts 600, 714-717)
LoadTemplate(templatePath) ==
    IF templatePath \in TemplatePaths
    THEN [found |-> TRUE,
          content |-> Templates[CHOOSE k \in DOMAIN Templates :
                    DEFAULT_SETTINGS.resourceTypes[k].templatePath = templatePath]]
    ELSE [found |-> FALSE, content |-> Templates["Topic"]]

\* Mutant of UpdateFrontmatter: the tags of the template are dropped
UpdateFrontmatterInheritedOnly(content, parent, inheritedTags, noteName) ==
    [content EXCEPT
        !.parent = parent,
        !.tags = TagList(AddAll(<<>>, inheritedTags
                    \o (IF noteName # NoName THEN <<FormattedTag(noteName)>> ELSE <<>>)))]

\* updateFrontmatter(content, {parent, tags}, noteName)  (main.ts 719-744);
\* noteName is NoName when the caller passes undefined
UpdateFrontmatter(content, parent, inheritedTags, noteName) ==
    LET existingTagsArray == TagsArray(content.tags)
        allTags ==
            IF noteName # NoName /\ noteName # <<>>
            THEN AddAll(<<>>, existingTagsArray \o inheritedTags
                                \o <<FormattedTag(noteName)>>)
            ELSE AddAll(<<>>, existingTagsArray \o inheritedTags)
    IN  [content EXCEPT !.parent = parent, !.tags = TagList(allTags)]

(***************************************************************************)
(* TopicSelectorModal and BaseResourceCreator.getSelectedParent            *)
(* (main.ts 541-567, 815-838).                                             *)
(***************************************************************************)
\* what a selector or an input gives when the user dismisses it
Dismissed == "dismissed"

\* String.prototype.toLowerCase, on the class names of the model
LowerCaseClass(c) ==
    CASE c = "Topic" -> "topic" [] c = "SubTopic" -> "subtopic"
      [] c = "HowTo" -> "howto" [] c = "Resource" -> "resource"
      [] c = "Note" -> "note" [] OTHER -> c

\* file.path.startsWith(`${folder}/`), for a file that lies in the folder
\* itself
StartsWithFolder(v, n, folder) == v[n].path = PathInFolder(folder, n)

\* Mutant of GetItems: every note with a Class is offered
GetItemsAnyClass(v, st, allowedClasses) == {n \in DOMAIN v : v[n].Class # ""}

\* getItems(): the notes the selector offers  (main.ts 821-837)
GetItems(v, st, allowedClasses) ==
    {n \in DOMAIN v :
        /\ ~StartsWithFolder(v, n, st.selectorIgnoreFolderName)
        /\ v[n].Class # ""
        /\ LET classMatch ==
                LowerCaseClass(v[n].Class) \in
                    {LowerCaseClass(allowedClasses[i]) : i \in 1..Len(allowedClasses)}
           IN  IF v[n].Class = "Topic"
               THEN classMatch /\ v[n].subfolder # ""
               ELSE classMatch}

\* The onChooseItem callback of getSelectedParent (main.ts 543-565) for the
\* chosen file: whether the promise is resolved, and with which parentPath.
\* err is "TypeError" when the file cache of a null parent is read.
GetSelectedParent(v, file, folderName) ==
    LET frontmatter == v[file]
        parentMatch == ParentMatch(frontmatter.parent)
        parentFile == GetFirstLinkpathDest(v, parentMatch.path, frontmatter.path)
    IN  IF frontmatter.Class = "Topic" /\ frontmatter.subfolder # ""
        THEN [resolved |-> TRUE, err |-> "",
              parentPath |-> frontmatter.subfolder \o "/" \o folderName]
        ELSE IF frontmatter.Class = "SubTopic" /\ parentMatch.matched
        THEN IF parentFile = NoFile
             THEN [resolved |-> FALSE, err |-> "TypeError", parentPath |-> ""]
             ELSE IF v[parentFile].subfolder # ""
             THEN [resolved |-> TRUE, err |-> "",
                   parentPath |-> v[parentFile].subfolder \o "/" \o folderName
                                    \o "/" \o file]
             ELSE [resolved |-> FALSE, err |-> "", parentPath |-> ""]
        ELSE [resolved |-> FALSE, err |-> "", parentPath |-> ""]

(***************************************************************************)
(* Creation: ActionSelectorModal.onChooseItem, ResourceManager             *)
(* .createResourceWithConfig, BaseResourceCreator.createNoteResource and   *)
(* FileService.createFile (main.ts 587-618, 659-704, 750-765, 868-890).    *)
(***************************************************************************)
\* getItems() of the action selector: `New ${config.name}` per type
GetActions(st) == {"New " \o st.resourceTypes[k].name : k \in DOMAIN st.resourceTypes}

\* the key of the type whose displayed name matches the action
\* (main.ts 883-884)
ResourceTypeKey(st, action) ==
    CHOOSE k \in DOMAIN st.resourceTypes : "New " \o st.resourceTypes[k].name = action

\* config?.addNameAsTag of createNoteResource (main.ts 602, 609), whose
\* resourceType argument is the displayed name of the type (main.ts 678)
NameTagConfig(st, config) ==
    /\ config.name \in DOMAIN st.resourceTypes
    /\ st.resourceTypes[config.name].addNameAsTag

\* What the creation of a note of the type `key` comes to, up to its first
\* storage call, for the selection made in the parent selector and the
\* name typed.  stage is "pending" when the promise of getSelectedParent is
\* never resolved, "returned" when the name is missing, "notice" when the
\* template is not found, "thrown" when getInheritedTags throws, and
\* "create" when createFile is reached.
CreatePlan(v, st, key, selection, name) ==
    LET config == st.resourceTypes[key]
        hasParents == Len(config.allowedParentClasses) > 0
        selected ==
            IF hasParents /\ selection # Dismissed
            THEN GetSelectedParent(v, selection, config.folderName)
            ELSE [resolved |-> FALSE, err |-> "", parentPath |-> ""]
        parentFile == IF hasParents THEN selection ELSE NoFile
        targetPath == IF hasParents THEN selected.parentPath ELSE config.folderName
        template == LoadTemplate(config.templatePath)
        inheritedTags ==
            IF hasParents /\ selected.resolved
            THEN GetInheritedTags(v, parentFile, 0) ELSE NoTagsResult
        stage ==
            IF hasParents /\ ~selected.resolved THEN "pending"
            ELSE IF ~NameGiven(name) THEN "returned"
            ELSE IF ~template.found THEN "notice"
            ELSE IF inheritedTags.err # "" THEN "thrown"
            ELSE "create"
        updatedContent ==
            IF stage # "create" THEN template.content
            ELSE IF hasParents
            THEN UpdateFrontmatter(template.content,
                    FormatLink(v[parentFile].path, parentFile),
                    inheritedTags.tags,
                    IF NameTagConfig(st, config) THEN name ELSE NoName)
            ELSE template.content
    IN  [stage |-> stage,
         err |-> IF stage = "thrown" THEN inheritedTags.err
                 ELSE IF stage = "pending" THEN selected.err ELSE "",
         dismissed |-> \/ (hasParents /\ selection = Dismissed)
                       \/ ((hasParents => selected.resolved) /\ name = NoName),
         parentFile |-> parentFile,
         targetPath |-> targetPath,
         inheritedTags |-> inheritedTags.tags,
         updatedContent |-> updatedContent,
         filePath |-> targetPath \o "/" \o Join(name) \o ".md"]

\* The storage calls of createFile (main.ts 750-765): ensureDirectory
\* creates the folder of the path when it does not exist, then the file is
\* created
CreateCalls(plan, fs) ==
    IF plan.stage # "create" THEN <<>>
    ELSE (IF plan.targetPath # "" /\ ~Exists(fs, plan.targetPath)
          THEN <<"createFolder">> ELSE <<>>)
         \o <<"create">>

\* vault.create(path, content): a new note with the content
Create(v, basename, path, content) ==
    [n \in DOMAIN v \cup {basename} |->
        IF n = basename
        THEN [path |-> path, Class |-> content.Class,
              subfolder |-> content.subfolder, parent |-> content.parent,
              tags |-> content.tags, rest |-> content.rest]
        ELSE v[n]]

\* The "Create New Content" command: the action chosen in the action
\* selector, the note chosen in the parent selector (or its dismissal) and
\* the name typed (or null).  vault.create throws when a file exists at the
\* path; `fail` is the storage call that throws in this run.
CreateNewContent(action, selection, name) ==
    /\ calls < MaxCalls
    /\ LET config == settings.resourceTypes[ResourceTypeKey(settings, action)]
       IN  IF Len(config.allowedParentClasses) > 0
           THEN selection \in GetItems(vault, settings, config.allowedParentClasses)
                                \cup {Dismissed}
           ELSE selection = NoFile
    /\ \E key \in {ResourceTypeKey(settings, action)} :
       \E plan \in {CreatePlan(vault, settings, key, selection, name)} :
       \E planned \in {CreateCalls(plan, folders)} :
       \E fail \in {"none"} \cup Range(planned) :
        LET basename == Join(name)
            issued == IssuedCalls(planned, fail)
            done == Range(issued) \ {fail}
        IN  /\ plan.stage = "pending" => name = NoName
            /\ plan.stage = "create" =>
                    /\ basename \in DOMAIN vault => vault[basename].path = plan.filePath
                    /\ basename \in DOMAIN vault => fail # "none"
            /\ vault' = IF "create" \in done
                        THEN Create(vault, basename, plan.filePath, plan.updatedContent)
                        ELSE vault
            /\ folders' = IF "createFolder" \in done
                          THEN CreateFolder(folders, plan.targetPath) ELSE folders
            /\ hist' = [op |-> "createResource",
                        key |-> key,
                        selected |-> selection,
                        name |-> name,
                        status |-> IF plan.stage = "create"
                                   THEN (IF fail = "none" THEN "ok" ELSE "error")
                                   ELSE plan.stage,
                        err |-> IF fail # "none" THEN fail ELSE plan.err,
                        dismissed |-> plan.dismissed,
                        pre |-> vault,
                        preFolders |-> folders,
                        plan |-> plan,
                        io |-> issued,
                        file |-> IF "create" \in done THEN basename ELSE NoFile,
                        newParent |-> NoFile,
                        sameParent |-> FALSE]
    /\ calls' = calls + 1
    /\ UNCHANGED <<settings, ret, running>>

(***************************************************************************)
(* The "Change Note Parent" command (main.ts 1033-1076).                   *)
(***************************************************************************)
\* The command ends before changeNoteParent is called: with a Notice, or
\* with its selector promise left unresolved
CommandEnds(activeFile, status, dismissed) ==
    /\ calls < MaxCalls
    /\ hist' = [op |-> "changeParentCommand", file |-> activeFile,
                newParent |-> NoFile, sameParent |-> FALSE,
                status |-> status, err |-> "", dismissed |-> dismissed,
                pre |-> vault, preFolders |-> folders, io |-> <<>>]
    /\ calls' = calls + 1
    /\ UNCHANGED <<vault, folders, settings, ret, running>>

\* !resourceType?.allowedParentClasses?.length  (main.ts 1053-1055)
CannotHaveParent(st, v, activeFile) ==
    \/ v[activeFile].Class \notin DOMAIN st.resourceTypes
    \/ Len(st.resourceTypes[v[activeFile].Class].allowedParentClasses) = 0

ChangeParentCommand(activeFile, choice) ==
    IF activeFile = NoFile
    THEN choice = Dismissed /\ CommandEnds(activeFile, "notice", FALSE)
    ELSE IF CannotHaveParent(settings, vault, activeFile)
    THEN choice = Dismissed /\ CommandEnds(activeFile, "notice", FALSE)
    ELSE IF choice = Dismissed
    THEN CommandEnds(activeFile, "pending", TRUE)
    ELSE /\ choice \in GetItems(vault, settings,
                settings.resourceTypes[vault[activeFile].Class].allowedParentClasses)
         /\ ChangeNoteParent(activeFile, choice)

(***************************************************************************)
(* The creation flow up to its name prompt, one step at a time             *)
(* (main.ts 541-567, 659-665, 681-683).  running holds the flow: pc is     *)
(* "selector" while the parent selector is open, "resolved" when the       *)
(* promise of getSelectedParent was resolved, "unresolved" when the        *)
(* callback ended without resolving it, "thrown" when the callback threw,  *)
(* "closed" when the selector was closed without a choice, and "prompt"    *)
(* when the name input is open.                                            *)
(***************************************************************************)
Flow(key, pc) == [pc |-> pc, key |-> key, file |-> NoFile, parentPath |-> ""]

\* createResourceWithConfig up to its first await: the selector is opened
\* for a type with allowed parent classes, the name input otherwise
StartCreation(action) ==
    /\ running = <<>>
    /\ LET key == ResourceTypeKey(settings, action)
       IN  running' =
            <<Flow(key, IF Len(settings.resourceTypes[key].allowedParentClasses) > 0
                        THEN "selector" ELSE "prompt")>>
    /\ UNCHANGED <<vault, folders, settings, ret, hist, calls>>

\* The user picks `file` in the selector: onChooseItem runs and resolves
\* the promise, or ends without resolving it, or throws
ChooseItem(file) ==
    /\ running # <<>>
    /\ running[1].pc = "selector"
    /\ LET config == settings.resourceTypes[running[1].key]
           selected == GetSelectedParent(vault, file, config.folderName)
       IN  /\ file \in GetItems(vault, settings, config.allowedParentClasses)
           /\ running' =
                <<[running[1] EXCEPT
                    !.pc = IF selected.resolved THEN "resolved"
                           ELSE IF selected.err # "" THEN "thrown"
                           ELSE "unresolved",
                    !.file = file,
                    !.parentPath = selected.parentPath]>>
    /\ UNCHANGED <<vault, folders, settings, ret, hist, calls>>

\* The user closes the selector without a choice: onChooseItem is not
\* called
CloseSelector ==
    /\ running # <<>>
    /\ running[1].pc = "selector"
    /\ running' = <<[running[1] EXCEPT !.pc = "closed"]>>
    /\ UNCHANGED <<vault, folders, settings, ret, hist, calls>>

\* The await of getSelectedParent is over: the name input is opened
PromptName ==
    /\ running # <<>>
    /\ running[1].pc = "resolved"
    /\ running' = <<[running[1] EXCEPT !.pc = "prompt"]>>
    /\ UNCHANGED <<vault, folders, settings, ret, hist, calls>>

(***************************************************************************)
(* ResourceTypeModal (main.ts 1268-1413): the modal is opened for an       *)
(* existing type or for a new one, its inputs start from the stored entry  *)
(* (1277-1361), the user edits some of them and presses Save.              *)
(***************************************************************************)
\* the modal was opened to add a type
NoKey == ""

\* String.prototype.trim
RECURSIVE DropTrailingSpaces(_)
DropTrailingSpaces(cs) ==
    IF cs # <<>> /\ IsSpace(cs[Len(cs)])
    THEN DropTrailingSpaces(SubSeq(cs, 1, Len(cs) - 1)) ELSE cs

Trim(cs) == DropTrailingSpaces(DropSpaces(cs))

\* replace(/\s+/g, '')  (main.ts 1397)
RemoveSpaces(cs) == SelectSeq(cs, LAMBDA c : ~IsSpace(c))

\* What the inputs of the modal show when it opens (main.ts 1277-1361)
ShownName(existingKey) == IF existingKey = NoKey THEN <<>> ELSE <<existingKey>>
ShownFolderName(st, existingKey) ==
    IF existingKey = NoKey THEN "" ELSE st.resourceTypes[existingKey].folderName
ShownTemplatePath(st, existingKey) ==
    IF existingKey = NoKey THEN "" ELSE st.resourceTypes[existingKey].templatePath
ShownAllowedParents(st, existingKey) ==
    IF existingKey = NoKey THEN <<>>
    ELSE st.resourceTypes[existingKey].allowedParentClasses
ShownAddNameAsTag(st, existingKey) ==
    existingKey # NoKey /\ st.resourceTypes[existingKey].addNameAsTag
ShownMoveOnParentChange(st, existingKey) ==
    existingKey # NoKey /\ MoveOnParentChange(st, existingKey)

\* saveResourceType() (main.ts 1372-1413) with the values the inputs hold
\* when Save is pressed.  The name is a sequence of characters; the entry
\* is stored under the key the modal was opened for, or under the name
\* without its whitespace.
SaveResourceType(existingKey, nameInput, folderName, templatePath, addNameAsTag, moveOnParentChange) ==
    /\ calls < MaxCalls
    /\ LET name == Trim(nameInput)
           key == IF existingKey # NoKey THEN existingKey
                  ELSE Join(RemoveSpaces(name))
           valid == name # <<>> /\ folderName # "" /\ templatePath # ""
           newConfig == NewConfig(Join(name), folderName, templatePath,
                                  ShownAllowedParents(settings, existingKey),
                                  addNameAsTag)
       IN  /\ settings' = IF valid THEN AddResourceType(settings, key, newConfig)
                          ELSE settings
           /\ hist' = [op |-> "saveResourceType",
                       status |-> IF valid THEN "saved" ELSE "notice",
                       existingKey |-> existingKey,
                       key |-> key,
                       moveOnParentChange |-> moveOnParentChange,
                       shownMoveOnParentChange |->
                            ShownMoveOnParentChange(settings, existingKey),
                       preSettings |-> settings,
                       file |-> NoFile, newParent |-> NoFile,
                       sameParent |-> FALSE]
    /\ calls' = calls + 1
    /\ UNCHANGED <<vault, folders, ret, running>>

(***************************************************************************)
(* Queries: a call of getInheritedTags or findTopicWithSubfolder on a      *)
(* note of the vault.                                                      *)
(***************************************************************************)
NoRet == [op |-> "none", file |-> NoFile, err |-> "", tags |-> <<>>, sub |-> ""]

CallGetInheritedTags(file) ==
    LET r == GetInheritedTags(vault, file, 0)
    IN  /\ ret' = [op |-> "getInheritedTags", file |-> file,
                   err |-> r.err, tags |-> r.tags, sub |-> ""]
        /\ UNCHANGED <<vault, folders, settings, hist, calls, running>>

CallFindTopicWithSubfolder(file) ==
    LET r == FindTopicWithSubfolder(vault, file, 0)
    IN  /\ ret' = [op |-> "findTopicWithSubfolder", file |-> file,
                   err |-> r.err, tags |-> <<>>, sub |-> r.sub]
        /\ UNCHANGED <<vault, folders, settings, hist, calls, running>>

(***************************************************************************)
(* Initial states.                                                         *)
(***************************************************************************)
\* Every note starts in the folder of the Topic type
InitialFolder == DEFAULT_SETTINGS.resourceTypes["Topic"].folderName
PathIn(dir, basename) == dir \o "/" \o basename \o ".md"
InitialPath(n) == PathIn(InitialFolder, n)

LinkTo(n) == FormatLink(InitialPath(n), n)
\* a well-formed link to a path where no note is
Dangling == FormatLink(PathIn(InitialFolder, "Gone"), "Gone")

MkNote(n, class, subfolder, parent, tags) ==
    [path |-> InitialPath(n), Class |-> class, subfolder |-> subfolder,
     parent |-> parent, tags |-> tags, rest |-> "text of " \o n]

NoHist ==
    [op |-> "none", status |-> "", file |-> NoFile, newParent |-> NoFile,
     sameParent |-> FALSE]

InitRest ==
    /\ folders = {InitialFolder}
    /\ running = <<>>
    /\ ret = NoRet
    /\ hist = NoHist
    /\ calls = 0

\* Vaults of the parent-change specification.  A is a Topic with the tag
\* x, with or without a subfolder.  B is a second Topic with a subfolder, or
\* a SubTopic or a HowTo, with the tag y, alone or under A.  C is a
\* SubTopic or a note of a class without settings; its parent
\* field is absent, a link to A or to B, a link to no note or a text that
\* is no link; its tags are absent, a single string, the tag of A, or a
\* list that names x twice.
NotesA ==
    {MkNote("A", "Topic", sub, NoParent, TagList(<<"x">>)) : sub \in {"20_A", ""}}
NotesB ==
    {MkNote("B", cs[1], cs[2], parent, TagList(<<"y">>)) :
        cs \in {<<"Topic", "20_B">>, <<"SubTopic", "">>, <<"HowTo", "">>},
        parent \in {NoParent, LinkTo("A")}}
NotesC ==
    {MkNote("C", class, "", parent, tags) :
        class \in {"SubTopic", "Note"},
        parent \in {NoParent, LinkTo("A"), LinkTo("B"), Dangling, OtherText},
        tags \in {NoTags, TagString("z"), TagList(<<"x">>), TagList(<<"x", "z", "x">>)}}

Vaults == {("A" :> a) @@ ("B" :> b) @@ ("C" :> c) : a \in NotesA, b \in NotesB, c \in NotesC}

\* The settings are the default ones; where C is a SubTopic they may be the
\* ones in which the SubTopic type was saved again.
Init ==
    /\ vault \in Vaults
    /\ settings \in {DEFAULT_SETTINGS}
            \cup (IF vault["C"].Class = "SubTopic" THEN {ResavedSettings} ELSE {})
    /\ InitRest

\* Vaults of the query specification: every note has any parent field,
\* cycles included, and either the tags or the classes vary.  A note of
\* class "" without parent is a note with empty or absent frontmatter.
ParentFields == {NoParent, OtherText, Dangling} \cup {LinkTo(n) : n \in Notes}
TagFields ==
    {NoTags, TagString("x"), TagList(<<"y">>), TagList(<<"z">>),
     TagList(<<"x", "y", "x">>)}

TagVaults ==
    {[n \in Notes |-> MkNote(n, "Topic", "", p[n], t[n])] :
        p \in [Notes -> ParentFields], t \in [Notes -> TagFields]}
TopicVaults ==
    {[n \in Notes |-> MkNote(n, cs[n][1], cs[n][2], p[n], NoTags)] :
        p \in [Notes -> ParentFields],
        cs \in [Notes -> {<<"Topic", "20_T">>, <<"Topic", "">>,
                          <<"SubTopic", "">>, <<"SubTopic", "20_S">>,
                          <<"", "">>}]}

InitQuery ==
    /\ vault \in TagVaults \cup TopicVaults
    /\ settings = DEFAULT_SETTINGS
    /\ InitRest

\* Vaults of the command specification: the Topic A with or without a
\* subfolder, the SubTopic B under A, alone, or with a link to no note, and
\* the HowTo C under B.
CreateVaults ==
    {("A" :> MkNote("A", "Topic", sub, NoParent, TagList(<<"x">>)))
     @@ ("B" :> MkNote("B", "SubTopic", "", parent, TagList(<<"y">>)))
     @@ ("C" :> MkNote("C", "HowTo", "", LinkTo("B"), TagList(<<"z">>))) :
        sub \in {"20_A", ""}, parent \in {LinkTo("A"), NoParent, Dangling}}

\* The default settings after addNameAsTag was switched on for a type in
\* the settings tab
NameTagSettings(key) ==
    LET old == DEFAULT_SETTINGS.resourceTypes[key]
    IN  AddResourceType(DEFAULT_SETTINGS, key,
            NewConfig(old.name, old.folderName, old.templatePath,
                      old.allowedParentClasses, TRUE))

\* The names typed: none (dismissed), the empty one, "N" and "M  d"
CreateNames == {NoName, <<>>, <<"N">>, <<"M", " ", " ", "d">>}

InitCreate ==
    /\ vault \in CreateVaults
    /\ settings \in {DEFAULT_SETTINGS, NameTagSettings("HowTo"), NameTagSettings("Topic")}
    /\ InitRest

\* Vaults of the change-parent command: the Topic A with or without a
\* subfolder; B, whose Class is written SubTopic or subtopic, alone or
\* under A; the active notes C, a HowTo, a Topic or a note of a class
\* without settings; and the Topic D, which lies in the folder the selector
\* ignores.
IgnoredNote(n, class, subfolder, tags) ==
    [MkNote(n, class, subfolder, NoParent, tags) EXCEPT
        !.path = PathInFolder(DEFAULT_SETTINGS.selectorIgnoreFolderName, n)]

CommandVaults ==
    {("A" :> MkNote("A", "Topic", sub, NoParent, TagList(<<"x">>)))
     @@ ("B" :> MkNote("B", classB, "", parentB, TagList(<<"y">>)))
     @@ ("C" :> MkNote("C", classC, "", parentC, TagList(<<"z">>)))
     @@ ("D" :> IgnoredNote("D", "Topic", "20_D", TagList(<<"x">>))) :
        sub \in {"20_A", ""},
        classB \in {"SubTopic", "subtopic"}, parentB \in {NoParent, LinkTo("A")},
        classC \in {"HowTo", "Topic", "Note"}, parentC \in {NoParent, LinkTo("B")}}

InitParentCommand ==
    /\ vault \in CommandVaults
    /\ settings = DEFAULT_SETTINGS
    /\ InitRest

\* Vaults in which notes are created and then given a parent: the Topic A
\* with a subfolder; the SubTopic B under A, which may declare a subfolder
\* of its own; and the SubTopic C, under A or under B.
PlacementVaults ==
    {("A" :> MkNote("A", "Topic", "20_A", NoParent, TagList(<<"x">>)))
     @@ ("B" :> MkNote("B", "SubTopic", sub, LinkTo("A"), TagList(<<"x", "y">>)))
     @@ ("C" :> MkNote("C", "SubTopic", "", parent, tags)) :
        sub \in {"", "20_S"}, parent \in {LinkTo("A"), LinkTo("B")},
        tags \in {TagList(<<"x">>), TagList(<<"x", "y", "z">>)}}

InitPlacement ==
    /\ vault \in PlacementVaults
    /\ settings = DEFAULT_SETTINGS
    /\ InitRest

\* The creation flow starts in the vaults of the two commands
InitFlow ==
    /\ vault \in CreateVaults \cup CommandVaults
    /\ settings = DEFAULT_SETTINGS
    /\ InitRest

\* The settings tab is used in a vault with the Topics A and B, B with or
\* without a subfolder, and the SubTopic C under A
SettingsVaults ==
    {("A" :> MkNote("A", "Topic", "20_A", NoParent, TagList(<<"x">>)))
     @@ ("B" :> MkNote("B", "Topic", sub, NoParent, TagList(<<"y">>)))
     @@ ("C" :> MkNote("C", "SubTopic", "", LinkTo("A"), TagList(<<"x", "z">>))) :
        sub \in {"20_B", ""}}

\* The names and folder names typed into the modal
TypedNames == {<<>>, <<" ", "My", " ", "Type", " ">>}
TypedFolderNames == {"", "40_Moved"}

InitSettings ==
    /\ vault \in SettingsVaults
    /\ settings = DEFAULT_SETTINGS
    /\ InitRest

\* Vaults of the interleaving specification: the Topics A and B, B with or
\* without a subfolder, and the note C, of a type that moves or of a class
\* without settings, alone or under A.  The command is triggered twice on
\* C, with the new parents A and B.
ConcVaults ==
    {("A" :> MkNote("A", "Topic", "20_A", NoParent, TagList(<<"x">>)))
     @@ ("B" :> MkNote("B", "Topic", sub, NoParent, TagList(<<"y">>)))
     @@ ("C" :> MkNote("C", class, "", parent, tags)) :
        sub \in {"20_B", ""}, class \in {"SubTopic", "Note"},
        parent \in {NoParent, LinkTo("A")},
        tags \in {TagList(<<"z">>), TagList(<<"x", "z">>)}}

InitConc ==
    /\ vault \in ConcVaults
    /\ settings = DEFAULT_SETTINGS
    /\ folders = {InitialFolder}
    /\ ret = NoRet
    /\ hist = NoHist
    /\ calls = 0
    /\ running = <<Invocation("C", "A"), Invocation("C", "B")>>

(***************************************************************************)
(* Specifications.                                                         *)
(***************************************************************************)
Next ==
    \E activeFile \in DOMAIN vault, newParent \in DOMAIN vault :
        ChangeNoteParent(activeFile, newParent)

Spec == Init /\ [][Next]_vars

NextQuery ==
    \/ \E file \in DOMAIN vault : CallGetInheritedTags(file)
    \/ \E file \in DOMAIN vault : CallFindTopicWithSubfolder(file)

SpecQuery == InitQuery /\ [][NextQuery]_vars

\* The two commands of the plugin, with the choices of the user
NextCommand ==
    \/ \E action \in GetActions(settings),
          selection \in DOMAIN vault \cup {Dismissed, NoFile},
          name \in CreateNames :
            CreateNewContent(action, selection, name)
    \/ \E activeFile \in DOMAIN vault \cup {NoFile},
          choice \in DOMAIN vault \cup {Dismissed} :
            ChangeParentCommand(activeFile, choice)

SpecCommand == InitCreate /\ [][NextCommand]_vars

\* The change-parent command alone: the active note, if any, and the
\* choice made in its selector
NextParentCommand ==
    \E activeFile \in DOMAIN vault \cup {NoFile},
       choice \in DOMAIN vault \cup {Dismissed} :
        ChangeParentCommand(activeFile, choice)

SpecParentCommand == InitParentCommand /\ [][NextParentCommand]_vars

\* The two commands, over the vaults in which a SubTopic may lie under a
\* SubTopic
SpecPlacement == InitPlacement /\ [][NextCommand]_vars

\* The creation flow up to the name prompt.  The continuation of a
\* resolved promise is run by the event loop, the choices are the user's.
NextFlow ==
    \/ \E action \in GetActions(settings) : StartCreation(action)
    \/ \E file \in DOMAIN vault : ChooseItem(file)
    \/ CloseSelector
    \/ PromptName

SpecFlow == InitFlow /\ [][NextFlow]_vars /\ WF_vars(PromptName)

\* The resource-type modal, saved with inputs left as shown or typed anew,
\* and the parent changes made with the settings it leaves
NextSettings ==
    \/ \E existingKey \in DOMAIN settings.resourceTypes \cup {NoKey} :
       \E nameInput \in {ShownName(existingKey)} \cup TypedNames,
          folderName \in {ShownFolderName(settings, existingKey)} \cup TypedFolderNames,
          templatePath \in {ShownTemplatePath(settings, existingKey)}
                            \cup {DEFAULT_SETTINGS.resourceTypes["Topic"].templatePath},
          addNameAsTag \in {ShownAddNameAsTag(settings, existingKey)},
          moveOnParentChange \in BOOLEAN :
            SaveResourceType(existingKey, nameInput, folderName, templatePath,
                             addNameAsTag, moveOnParentChange)
    \/ \E newParent \in DOMAIN vault : ChangeNoteParent("C", newParent)

SpecSettings == InitSettings /\ [][NextSettings]_vars

\* Two invocations of changeNoteParent, interleaved at their storage calls
NextConc ==
    \/ \E i \in DOMAIN running : Begin(i)
    \/ \E i \in DOMAIN running : CheckExists(i)
    \/ \E i \in DOMAIN running : DoCreateFolder(i)
    \/ \E i \in DOMAIN running : DoRenameFile(i)
    \/ \E i \in DOMAIN running : DoModify(i)

SpecConc == InitConc /\ [][NextConc]_vars

(***************************************************************************)
(* Claims about the queries, checked under SpecQuery.                      *)
(***************************************************************************)
\* C1: getInheritedTags terminates and returns a finite tag set for every
\* note of every vault, also when the parent links form a cycle.
C1_GetInheritedTagsReturns ==
    ret.op = "getInheritedTags" => ret.err = ""

\* C2: findTopicWithSubfolder terminates for every note of every vault; on
\* a cycle of parent links with no Topic that has a subfolder it returns
\* none.
C2_FindTopicWithSubfolderReturns ==
    ret.op = "findTopicWithSubfolder" =>
        /\ ret.err = ""
        /\ (\A n \in Chain(vault, ret.file) :
                ~(vault[n].Class = "Topic" /\ vault[n].subfolder # ""))
            => ret.sub = ""

\* C4: on an acyclic parent chain getInheritedTags(note) is exactly the
\* union of the own tags of the note and of every ancestor reached by
\* resolvable parent links; no tag is altered, added or lost.
C4_InheritedTagsAreUnionOfChain ==
    (ret.op = "getInheritedTags" /\ AcyclicChain(vault, ret.file)) =>
        /\ ret.err = ""
        /\ Range(ret.tags) = UNION {OwnTags(vault, n) : n \in Chain(vault, ret.file)}

\* C4 witness: a chain of three notes with the tags x, y and z gives
\* {x, y, z} for the note at its end.
C4_Witness ==
    /\ ret.op = "getInheritedTags"
    /\ AcyclicChain(vault, ret.file)
    /\ Cardinality(Chain(vault, ret.file)) = 3
    /\ \A n \in DOMAIN vault : Cardinality(OwnTags(vault, n)) = 1
    /\ Range(ret.tags) = {"x", "y", "z"}

\* C5: the result of getInheritedTags never contains a tag twice, whether
\* the note lists it twice or several notes of the chain declare it.
C5_InheritedTagsHaveNoDuplicates ==
    (ret.op = "getInheritedTags" /\ ret.err = "") => NoDuplicates(ret.tags)

\* C5 witness: a note with the tags [x, y, x] whose parent declares x too
\* gets [x, y].
C5_Witness ==
    /\ ret.op = "getInheritedTags"
    /\ vault[ret.file].tags = TagList(<<"x", "y", "x">>)
    /\ ParentOf(vault, ret.file) # NoFile
    /\ "x" \in OwnTags(vault, ParentOf(vault, ret.file))
    /\ ret.tags = <<"x", "y">>

\* The k-th note on the ancestry chain of a note (the note itself for
\* k = 0), or null when the chain has ended before
RECURSIVE Ancestor(_, _, _)
Ancestor(v, file, k) ==
    IF k = 0 THEN file
    ELSE LET below == Ancestor(v, file, k - 1)
         IN  IF below = NoFile THEN NoFile ELSE ParentOf(v, below)

DeclaresSubfolder(v, n) == v[n].Class = "Topic" /\ v[n].subfolder # ""

\* C11: findTopicWithSubfolder(note) returns the subfolder of the nearest
\* note of the ancestry chain, the note included, that is a Topic and
\* declares a subfolder; a Topic without subfolder is passed over; the
\* result is none when the chain ends before such a note is found.
C11_NearestTopicSubfolder ==
    ret.op = "findTopicWithSubfolder" =>
        \A k \in 0..Cardinality(DOMAIN vault) :
            LET a == Ancestor(vault, ret.file, k)
            IN  (\A j \in 0..(k - 1) :
                    /\ Ancestor(vault, ret.file, j) # NoFile
                    /\ ~DeclaresSubfolder(vault, Ancestor(vault, ret.file, j)))
                =>  /\ (a # NoFile /\ DeclaresSubfolder(vault, a)) =>
                            ret.err = "" /\ ret.sub = vault[a].subfolder
                    /\ a = NoFile => ret.err = "" /\ ret.sub = ""

\* C11 witness: the note is a SubTopic, its parent a Topic without
\* subfolder, and the parent of that one a Topic with the subfolder that is
\* returned.
C11_Witness ==
    /\ ret.op = "findTopicWithSubfolder"
    /\ vault[ret.file].Class = "SubTopic"
    /\ Ancestor(vault, ret.file, 1) # NoFile
    /\ vault[Ancestor(vault, ret.file, 1)].Class = "Topic"
    /\ vault[Ancestor(vault, ret.file, 1)].subfolder = ""
    /\ Ancestor(vault, ret.file, 2) # NoFile
    /\ DeclaresSubfolder(vault, Ancestor(vault, ret.file, 2))
    /\ ret.sub = "20_T"

\* C12: in getInheritedTags a parent field that does not resolve to a note
\* (a link to no note, or a text that is no link) counts as no parent: the
\* call raises no error and returns the own tags of the note.
C12_UnresolvableParentIsNoParent ==
    (/\ ret.op = "getInheritedTags"
     /\ vault[ret.file].parent # NoParent
     /\ ParentOf(vault, ret.file) = NoFile) =>
        /\ ret.err = ""
        /\ Range(ret.tags) = OwnTags(vault, ret.file)

\* C12 witness: a note with the tags [x, y, x] and a link to no note gets
\* [x, y].
C12_Witness ==
    /\ ret.op = "getInheritedTags"
    /\ vault[ret.file].parent = Dangling
    /\ vault[ret.file].tags = TagList(<<"x", "y", "x">>)
    /\ ret.err = ""
    /\ ret.tags = <<"x", "y">>

\* C13: for a note with empty or absent frontmatter getInheritedTags
\* returns the empty set, and for a note without parent it returns the own
\* tags of the note and nothing else.
C13_EmptyFrontmatterAndNoParent ==
    ret.op = "getInheritedTags" =>
        /\ (/\ vault[ret.file].Class = "" /\ vault[ret.file].subfolder = ""
            /\ vault[ret.file].parent = NoParent /\ vault[ret.file].tags = NoTags)
            => (ret.err = "" /\ ret.tags = <<>>)
        /\ vault[ret.file].parent = NoParent =>
                /\ ret.err = ""
                /\ Range(ret.tags) = Range(vault[ret.file].tags.val)

\* C13 witness: a note with empty frontmatter, to which another note
\* links, gets the empty list.
C13_Witness ==
    /\ ret.op = "getInheritedTags"
    /\ vault[ret.file].Class = "" /\ vault[ret.file].parent = NoParent
    /\ vault[ret.file].tags = NoTags
    /\ \E n \in DOMAIN vault \ {ret.file} : ParentOf(vault, n) = ret.file
    /\ ret.tags = <<>>

(***************************************************************************)
(* Claims about changeNoteParent, checked under Spec.  hist.pre is the     *)
(* vault before the last call, vault the vault after it.                   *)
(***************************************************************************)
Changed == hist.op = "changeNoteParent"
Completed == Changed /\ hist.status = "ok"

\* getInheritedTags and findTopicWithSubfolder as the last call saw them
PreInherited(file) == Range(GetInheritedTags(hist.pre, file, 0).tags)
PreSubfolder(file) == FindTopicWithSubfolder(hist.pre, file, 0)
PreMoves == MoveOnParentChange(settings, hist.pre[hist.file].Class)

\* C3: after changeParent(note, newParent) completes in an acyclic vault,
\* the parent link of the note resolves to newParent and the tag list of
\* the note contains every inherited tag of newParent and no tag twice.
C3_LinkResolvesAndTagsInherited ==
    (Completed /\ Acyclic(hist.pre)) =>
        /\ ParentOf(vault, hist.file) = hist.newParent
        /\ PreInherited(hist.newParent) \subseteq OwnTags(vault, hist.file)
        /\ NoDuplicates(TagsArray(vault[hist.file].tags))

\* C6: the tag list changeParent writes is the deduplicated union of the
\* custom tags and getInheritedTags(newParent), the custom tags being the
\* tags of the note that are not inherited tags of its previous parent; a
\* note without a previous parent keeps all its tags as custom.
C6_TagsAreCustomPlusNewInherited ==
    Completed =>
        LET file == hist.file
            oldParent == ParentOf(hist.pre, file)
            oldInherited == IF oldParent = NoFile THEN {} ELSE PreInherited(oldParent)
            written == vault[file].tags
        IN  /\ written.kind = "array"
            /\ NoDuplicates(written.val)
            /\ Range(written.val) =
                    (OwnTags(hist.pre, file) \ oldInherited)
                        \cup PreInherited(hist.newParent)

\* C6 witness: a note with a custom tag z and a tag x inherited from its
\* previous parent gets a new parent with the tag y: it keeps z, loses x
\* and gains y.
C6_Witness ==
    /\ Completed
    /\ hist.pre[hist.file].tags = TagList(<<"x", "z", "x">>)
    /\ ParentOf(hist.pre, hist.file) # NoFile
    /\ "x" \in PreInherited(ParentOf(hist.pre, hist.file))
    /\ vault[hist.file].tags = TagList(<<"z", "y">>)

\* C7: when the type of the note moves on parent change and
\* findTopicWithSubfolder(newParent) yields S, a completed changeParent
\* leaves the note at S/folderName/<basename>.md, with the segment
\* /<newParent basename> after folderName exactly when newParent is a
\* SubTopic.
C7_RelocatedUnderTopicSubfolder ==
    (Completed /\ PreMoves /\ PreSubfolder(hist.newParent).sub # "") =>
        LET S == PreSubfolder(hist.newParent).sub
            folderName == settings.resourceTypes[hist.pre[hist.file].Class].folderName
            segment == IF hist.pre[hist.newParent].Class = "SubTopic"
                       THEN "/" \o hist.newParent ELSE ""
        IN  vault[hist.file].path =
                S \o "/" \o folderName \o segment \o "/" \o hist.file \o ".md"

\* C7 witness: the SubTopic C of Topic A, with the tag of A, is moved under
\* Topic B (tag y, subfolder 20_B) and ends at 20_B/00_Subtopics/C.md with
\* the tags {y}.
C7_Witness ==
    /\ Completed
    /\ hist.file = "C" /\ hist.newParent = "B"
    /\ hist.pre["C"].Class = "SubTopic" /\ hist.pre["B"].Class = "Topic"
    /\ ParentOf(hist.pre, "C") = "A"
    /\ hist.pre["C"].tags = TagList(<<"x">>)
    /\ vault["C"].path = "20_B/00_Subtopics/C.md"
    /\ vault["C"].tags = TagList(<<"y">>)
    /\ ParentOf(vault, "C") = "B"

\* C7 witness, second case: moved under a SubTopic, the note ends in the
\* folder named after that SubTopic.
C7_WitnessUnderSubTopic ==
    /\ Completed
    /\ hist.pre[hist.newParent].Class = "SubTopic"
    /\ vault["C"].path = "20_A/00_Subtopics/B/C.md"

\* C8: when a folder creation or a rename fails, the call ends there: the
\* content and the path of the note are those before the call and no write
\* is issued; a write to a note that has to move is issued only after its
\* rename.
C8_FailedRelocationWritesNothing ==
    Changed =>
        /\ hist.err \in {"createFolder", "renameFile"} =>
                /\ vault = hist.pre
                /\ "modify" \notin Range(hist.io)
                /\ hist.io[Len(hist.io)] = hist.err
        /\ (hist.plan.relocate /\ "modify" \in Range(hist.io)) =>
                \E i, j \in 1..Len(hist.io) :
                    i < j /\ hist.io[i] = "renameFile" /\ hist.io[j] = "modify"

\* C8 witness: the folder was created and the rename failed.
C8_Witness ==
    /\ Changed
    /\ hist.err = "renameFile"
    /\ hist.io = <<"createFolder", "renameFile">>
    /\ vault = hist.pre

\* C9: when the type of the note moves on parent change and
\* findTopicWithSubfolder(newParent) returns none, changeParent writes the
\* new tags and the new parent link and leaves the path alone; it creates
\* no folder and renames nothing.
C9_RelocationSkipped ==
    (Changed /\ hist.plan.thrown = "" /\ PreMoves
        /\ PreSubfolder(hist.newParent).sub = "") =>
        /\ hist.io = <<"modify">>
        /\ folders = hist.preFolders
        /\ vault[hist.file].path = hist.pre[hist.file].path
        /\ hist.status = "ok" =>
                /\ vault[hist.file].parent.kind = "link"
                /\ vault[hist.file].parent.path = hist.pre[hist.newParent].path
                /\ OwnTags(vault, hist.file) =
                        Range(hist.plan.customTags) \cup PreInherited(hist.newParent)

\* C9 witness: a SubTopic gets a Topic without subfolder as its new parent.
C9_Witness ==
    /\ Completed /\ PreMoves
    /\ hist.file # hist.newParent
    /\ hist.pre[hist.newParent].Class = "Topic"
    /\ hist.pre[hist.newParent].subfolder = ""
    /\ ParentOf(hist.pre, hist.file) # hist.newParent
    /\ ParentOf(vault, hist.file) = hist.newParent
    /\ vault[hist.file].path = InitialPath(hist.file)

\* C10: for a note whose parent is P, in an acyclic vault, a second
\* changeParent(note, P) right after a first one leaves the tag set, the
\* parent link and the path the first one left.
C10_SameParentTwiceIsIdempotent ==
    (Completed /\ hist.again) =>
        /\ OwnTags(vault, hist.file) = OwnTags(hist.pre, hist.file)
        /\ vault[hist.file].parent = hist.pre[hist.file].parent
        /\ vault[hist.file].path = hist.pre[hist.file].path

\* C10 witness: the first call moved the note, the second one completed.
C10_Witness ==
    /\ Completed /\ hist.again
    /\ vault[hist.file].path # InitialPath(hist.file)
    /\ Cardinality(OwnTags(vault, hist.file)) = 2

\* C15: when the type of the note does not move on parent change (the
\* option is false or absent, or the class of the note has no entry in the
\* settings), changeParent writes the new frontmatter in place: the path is
\* unchanged and no folder is created and nothing renamed.
C15_NoMoveWritesInPlace ==
    (/\ Changed /\ hist.plan.thrown = ""
     /\ LET class == hist.pre[hist.file].Class
            types == settings.resourceTypes
        IN  \/ class \notin DOMAIN types
            \/ "moveOnParentChange" \notin DOMAIN types[class]
            \/ ~types[class].moveOnParentChange) =>
        /\ hist.io = <<"modify">>
        /\ folders = hist.preFolders
        /\ vault[hist.file].path = hist.pre[hist.file].path
        /\ hist.status = "ok" =>
                vault[hist.file].parent =
                    FormatLink(hist.pre[hist.newParent].path, hist.newParent)

\* C15 witness: a SubTopic whose type has no moveOnParentChange field gets
\* a Topic with a subfolder as parent and stays where it is.
C15_Witness ==
    /\ Completed
    /\ hist.pre[hist.file].Class = "SubTopic"
    /\ "moveOnParentChange" \notin DOMAIN settings.resourceTypes["SubTopic"]
    /\ DeclaresSubfolder(hist.pre, hist.newParent)
    /\ ParentOf(hist.pre, hist.file) # hist.newParent
    /\ ParentOf(vault, hist.file) = hist.newParent
    /\ vault[hist.file].path = InitialPath(hist.file)

\* C18: a tag of the note that is also an inherited tag of the previous
\* parent is kept by changeParent only if the new parent inherits it too;
\* every tag of the note that the previous parent does not inherit is kept.
C18_InheritedLookingTagsAreDropped ==
    Completed =>
        LET file == hist.file
            oldParent == ParentOf(hist.pre, file)
            oldInherited == IF oldParent = NoFile THEN {} ELSE PreInherited(oldParent)
        IN  \A t \in OwnTags(hist.pre, file) :
                IF t \in oldInherited
                THEN t \in OwnTags(vault, file) <=> t \in PreInherited(hist.newParent)
                ELSE t \in OwnTags(vault, file)

\* C18 witness: the only tag of the note is a tag of its previous parent;
\* the new parent does not inherit it and the note loses it.
C18_Witness ==
    /\ Completed
    /\ ParentOf(hist.pre, hist.file) # NoFile
    /\ OwnTags(hist.pre, hist.file) = {"x"}
    /\ "x" \in PreInherited(ParentOf(hist.pre, hist.file))
    /\ "x" \notin PreInherited(hist.newParent)
    /\ "x" \notin OwnTags(vault, hist.file)

\* C14: in changeParent every read used to compute the new tags and the
\* new link (the content of the note, the inherited tags of the old and of
\* the new parent, the subfolder) is made before the first storage
\* mutation of the call, so what is written was computed from the vault as
\* it was before the call.
C14_ReadsBeforeWrites ==
    Changed =>
        /\ \A i, j \in 1..Len(hist.steps) :
                (hist.steps[i] \in StorageCalls /\ hist.steps[j] \notin StorageCalls)
                    => j < i
        /\ Completed =>
                LET file == hist.file
                    oldParent == ParentOf(hist.pre, file)
                    old == IF ParentMatch(hist.pre[file].parent).matched
                           THEN GetInheritedTags(hist.pre, oldParent, 0).tags
                           ELSE <<>>
                    new == GetInheritedTags(hist.pre, hist.newParent, 0).tags
                    kept == SelectSeq(TagsArray(hist.pre[file].tags),
                                      LAMBDA t : t \notin Range(old))
                IN  /\ vault[file].parent =
                            FormatLink(hist.pre[hist.newParent].path, hist.newParent)
                    /\ vault[file].tags = TagList(AddAll(<<>>, kept \o new))

\* C14 witness: a call that makes every read and every storage call, for a
\* note that is made its own parent: the link written names the path the
\* note had before the call.
C14_Witness ==
    /\ Completed
    /\ hist.steps = <<"read", "getInheritedTags", "getInheritedTags",
                      "findTopicWithSubfolder", "getFileCache", "exists",
                      "createFolder", "renameFile", "modify">>
    /\ hist.file = hist.newParent
    /\ vault[hist.file].path # hist.pre[hist.file].path
    /\ vault[hist.file].parent.path = hist.pre[hist.file].path

(***************************************************************************)
(* Claims about the commands, checked under SpecCommand.                   *)
(***************************************************************************)
Created == hist.op = "createResource" /\ hist.status = "ok"

\* C16: when the name input of a creation, or the parent selector of a
\* creation or of the change-parent command, is dismissed, the operation
\* goes no further: nothing is created, renamed or written.
C16_DismissalMutatesNothing ==
    (hist.op \in {"createResource", "changeParentCommand"} /\ hist.dismissed) =>
        /\ hist.status \in {"pending", "returned"}
        /\ hist.io = <<>>
        /\ vault = hist.pre
        /\ folders = hist.preFolders

\* C16 witness: in a creation the parent was chosen and the name input then
\* dismissed.
C16_Witness ==
    /\ hist.op = "createResource"
    /\ hist.selected \in DOMAIN hist.pre
    /\ hist.name = NoName
    /\ hist.dismissed
    /\ hist.status = "returned"
    /\ vault = hist.pre

\* The folder a note of the type `key` is created in under the parent P:
\* the subfolder of the Topic P, or of the parent of the SubTopic P
CreationDir(v, st, key, P) ==
    IF v[P].Class = "Topic"
    THEN v[P].subfolder \o "/" \o st.resourceTypes[key].folderName
    ELSE v[ParentOf(v, P)].subfolder \o "/" \o st.resourceTypes[key].folderName
            \o "/" \o P

\* The link, the path and the folder of a note created with the parent P
CreatedUnderParent(P) ==
    LET note == vault[hist.file]
        dir == CreationDir(hist.pre, settings, hist.key, P)
    IN  /\ note.parent = FormatLink(hist.pre[P].path, P)
        /\ ParentOf(vault, hist.file) = P
        /\ note.path = dir \o "/" \o Join(hist.name) \o ".md"
        /\ dir \in folders

\* C19 as stated: a note created with a parent P has a link to P, the tags
\* of the template and the inherited tags of P, each once, and nothing
\* else, and lies at <parent path>/<name>.md in an existing folder.
C19_CreatedTagsAreTemplatePlusInherited ==
    (Created /\ hist.selected \in DOMAIN hist.pre) =>
        LET P == hist.selected
            note == vault[hist.file]
        IN  /\ CreatedUnderParent(P)
            /\ note.tags.kind = "array" /\ NoDuplicates(note.tags.val)
            /\ Range(note.tags.val) = Range(TemplateTags) \cup PreInherited(P)

\* C19, amended: the tags of a note created with a parent P are the tags of
\* the template, the inherited tags of P and, when the settings hold an
\* entry under the displayed name of the type that adds the name as a tag,
\* the formatted name of the note, each once; the link and the path are as
\* stated.
C19_CreatedTagsIncludeNameTag ==
    (Created /\ hist.selected \in DOMAIN hist.pre) =>
        LET P == hist.selected
            note == vault[hist.file]
            displayed == settings.resourceTypes[hist.key].name
            nameTag ==
                IF /\ displayed \in DOMAIN settings.resourceTypes
                   /\ settings.resourceTypes[displayed].addNameAsTag
                THEN {FormattedTag(hist.name)} ELSE {}
        IN  /\ CreatedUnderParent(P)
            /\ note.tags.kind = "array" /\ NoDuplicates(note.tags.val)
            /\ Range(note.tags.val) =
                    Range(TemplateTags) \cup PreInherited(P) \cup nameTag

\* C19 witness: the SubTopic "M  d" created under the Topic A has the tags
\* t, x and m_d and lies in the new folder 20_A/00_Subtopics.
C19_Witness ==
    /\ Created
    /\ hist.key = "SubTopic" /\ hist.selected = "A"
    /\ hist.io = <<"createFolder", "create">>
    /\ "M  d" \in DOMAIN vault
    /\ vault["M  d"].path = "20_A/00_Subtopics/M  d.md"
    /\ vault["M  d"].tags = TagList(<<"t", "x", "m_d">>)
    /\ ParentOf(vault, "M  d") = "A"

\* C20: a note created through the creation command has its name,
\* lowercased and with whitespace runs replaced by underscores, among its
\* tags exactly when the type it was created of has addNameAsTag.
C20_NameTagFollowsAddNameAsTag ==
    Created =>
        (settings.resourceTypes[hist.key].addNameAsTag
            <=> FormattedTag(hist.name) \in OwnTags(vault, hist.file))

(***************************************************************************)
(* Claims about interleaved invocations, checked under SpecConc.           *)
(***************************************************************************)
AllEnded == running # <<>> /\ \A i \in DOMAIN running : running[i].pc = "done"

\* The link, the tags and the path an invocation set out to leave
Intended(inv) ==
    [parent |-> inv.plan.updatedContent.parent,
     tags |-> inv.plan.updatedContent.tags,
     path |-> IF inv.plan.relocate THEN inv.plan.newPath ELSE inv.at]

\* C17: when two changeParent invocations on one note, with different new
\* parents, interleave at their storage calls, the link, the tags and the
\* path of the note are in the end those one of the two invocations set
\* out to leave, never the content of one at the location of the other.
C17_LastWriteWins ==
    (AllEnded /\ \E i \in DOMAIN running : running[i].status = "ok") =>
        \E i \in DOMAIN running :
            /\ running[i].status = "ok"
            /\ LET note == vault[running[i].file]
               IN  [parent |-> note.parent, tags |-> note.tags, path |-> note.path]
                        = Intended(running[i])

(***************************************************************************)
(* Claims about the parent hierarchy, checked under Spec.                  *)
(***************************************************************************)
\* C21: the vaults start as forests, and after any sequence of changeParent
\* calls with existing new parents (the note itself and its descendants
\* included) no note is its own ancestor.
C21_AcyclicityPreserved == Acyclic(vault)

\* every note with a resolvable parent has the tags of its parent
TagsPropagated(v) ==
    \A n \in DOMAIN v :
        ParentOf(v, n) # NoFile => OwnTags(v, ParentOf(v, n)) \subseteq OwnTags(v, n)

\* C22: when every note with a resolvable parent has the tags of its parent
\* before a changeParent call, every note has them after the call, the
\* descendants of the note whose parent was changed included.
C22_TagsStayPropagated ==
    (Completed /\ TagsPropagated(hist.pre)) => TagsPropagated(vault)

\* the parent field of the note is a well-formed link that resolves to no
\* note
DanglingParent(v, file) ==
    ParentMatch(v[file].parent).matched /\ ParentOf(v, file) = NoFile

\* C23: changeParent on a note whose parent field is a well-formed link to
\* no note treats the old parent as absent: unless a storage call fails,
\* the call completes, its old inherited tags are empty, every tag of the
\* note is kept as custom, and the new link and tags are written.
C23_DanglingOldParentIsAbsent ==
    (/\ Changed
     /\ Acyclic(hist.pre)
     /\ DanglingParent(hist.pre, hist.file)
     /\ hist.err \notin StorageCalls) =>
        /\ hist.status = "ok"
        /\ hist.plan.oldInheritedTags = <<>>
        /\ hist.plan.customTags = TagsArray(hist.pre[hist.file].tags)
        /\ vault[hist.file].parent
                = FormatLink(hist.pre[hist.newParent].path, hist.newParent)
        /\ OwnTags(vault, hist.file)
                = OwnTags(hist.pre, hist.file) \cup PreInherited(hist.newParent)

\* the last call wanted a move and computed the path the note already has
AlreadyInPlace ==
    /\ Changed
    /\ hist.plan.thrown = ""
    /\ hist.plan.wantsMove
    /\ hist.plan.topicSubfolder # ""
    /\ hist.plan.newPath = hist.pre[hist.file].path

\* C24: when relocation is required and the destination path computed is
\* the current path of the note, changeParent issues no createFolder and no
\* rename, and writes the updated frontmatter to the note in place.
C24_SamePathWritesInPlace ==
    AlreadyInPlace =>
        /\ hist.io = <<"modify">>
        /\ folders = hist.preFolders
        /\ vault[hist.file].path = hist.pre[hist.file].path
        /\ hist.status = "ok" => vault[hist.file] = hist.plan.updatedContent

C24_Witness ==
    /\ AlreadyInPlace
    /\ hist.status = "ok"
    /\ hist.pre[hist.file].path # InitialPath(hist.file)
    /\ vault[hist.file].tags # hist.pre[hist.file].tags

(***************************************************************************)
(* Claims about the commands, checked under SpecCommand.                   *)
(***************************************************************************)
\* the folder the last call had to ensure, "" when it did not come to it
EnsuredFolder ==
    IF hist.op = "changeNoteParent"
    THEN (IF hist.plan.relocate THEN hist.plan.newDir ELSE "")
    ELSE IF hist.op = "createResource"
    THEN (IF hist.plan.stage = "create" THEN hist.plan.targetPath ELSE "")
    ELSE ""

\* C25: changeParent and createFile call createFolder only when the folder
\* does not exist yet, so relocating or creating a note into an existing
\* folder raises no folder error, and after a successful relocation the
\* destination folder exists.
C25_FolderEnsuredOnce ==
    EnsuredFolder # "" =>
        /\ "createFolder" \in Range(hist.io) <=> ~Exists(hist.preFolders, EnsuredFolder)
        /\ Exists(hist.preFolders, EnsuredFolder) =>
                hist.err # "createFolder" /\ folders = hist.preFolders
        /\ hist.status = "ok" => Exists(folders, EnsuredFolder)

C25_Witness ==
    /\ hist.op = "changeNoteParent"
    /\ hist.status = "ok"
    /\ hist.plan.relocate
    /\ Exists(hist.preFolders, hist.plan.newDir)
    /\ vault[hist.file].path = hist.plan.newPath

(***************************************************************************)
(* Claims about the change-parent command, checked under                   *)
(* SpecParentCommand, where changeNoteParent is called by the command      *)
(* only.                                                                   *)
(***************************************************************************)
\* the classes a note of the class `class` may have as parent, lowercased
AllowedLowerCase(st, class) ==
    LET allowed == st.resourceTypes[class].allowedParentClasses
    IN  {LowerCaseClass(allowed[i]) : i \in 1..Len(allowed)}

\* C26: the change-parent command mutates nothing and does not call
\* changeNoteParent when there is no active note, or when the class of the
\* active note has no settings entry or no allowed parent class; when it
\* calls changeNoteParent, the class of the chosen parent is, letter case
\* aside, an allowed parent class of the note, and the parent does not lie
\* in the folder the selector ignores.
C26_CommandGuards ==
    /\ hist.op = "changeParentCommand" =>
            /\ hist.io = <<>>
            /\ vault = hist.pre
            /\ folders = hist.preFolders
            /\ (hist.file # NoFile /\ ~CannotHaveParent(settings, hist.pre, hist.file))
                    => hist.dismissed
    /\ hist.op = "changeNoteParent" =>
            /\ ~CannotHaveParent(settings, hist.pre, hist.file)
            /\ LowerCaseClass(hist.pre[hist.newParent].Class)
                    \in AllowedLowerCase(settings, hist.pre[hist.file].Class)
            /\ ~StartsWithFolder(hist.pre, hist.newParent,
                                 settings.selectorIgnoreFolderName)

\* C26 witness: the command changed the parent to a note whose Class is
\* written in another letter case, in a vault where a note of an allowed
\* class lies in the ignored folder.
C26_Witness ==
    /\ Completed
    /\ hist.pre[hist.newParent].Class = "subtopic"
    /\ \E n \in DOMAIN hist.pre :
            /\ StartsWithFolder(hist.pre, n, settings.selectorIgnoreFolderName)
            /\ LowerCaseClass(hist.pre[n].Class)
                    \in AllowedLowerCase(settings, hist.pre[hist.file].Class)

(***************************************************************************)
(* Claims about what changeNoteParent leaves alone, checked under Spec.    *)
(***************************************************************************)
\* in the note of the last call, nothing but the tags, the parent field
\* and the path differs from what it was
TargetKeepsTheRest ==
    /\ vault[hist.file].Class = hist.pre[hist.file].Class
    /\ vault[hist.file].subfolder = hist.pre[hist.file].subfolder
    /\ vault[hist.file].rest = hist.pre[hist.file].rest

\* the link of the note n to the old path of the renamed note was rewritten
\* by the host to the new path
LinkRewritten(n) ==
    /\ vault[hist.file].path # hist.pre[hist.file].path
    /\ hist.pre[n].parent = FormatLink(hist.pre[hist.file].path, hist.file)
    /\ vault[n] = [hist.pre[n] EXCEPT
                        !.parent = FormatLink(vault[hist.file].path, hist.file)]

PlanOf(v, st, file, newParent) ==
    LET oldInheritedTags == OldInheritedTags(v, file)
        newInheritedTags == GetInheritedTags(v, newParent, 0)
        topicSubfolder ==
            IF MoveOnParentChange(st, v[file].Class)
            THEN FindTopicWithSubfolder(v, newParent, 0) ELSE NoSubResult
    IN  ChangePlan(v, st, file, newParent,
                   oldInheritedTags, newInheritedTags, topicSubfolder)

\* the last operation created a note under a parent
CreatedUnder == Created /\ hist.plan.parentFile # NoFile

\* C28: for every parent P the selector offers, the folder a note is
\* created in under P is the destination folder changeParent computes for
\* that note and P, so that changeParent(note, P) right after the creation
\* does not move the note.
C28_CreationAndRelocationAgree ==
    CreatedUnder =>
        \E plan \in {PlanOf(vault, settings, hist.file, hist.plan.parentFile)} :
            /\ plan.thrown = ""
            /\ plan.wantsMove => plan.newDir = hist.plan.targetPath
            /\ ~plan.relocate

\* the created note, given the parent it was created under, is moved
MovedRightAfterCreation ==
    /\ Completed
    /\ hist.file \notin Notes
    /\ hist.sameParent
    /\ hist.plan.relocate
    /\ vault[hist.file].path # hist.pre[hist.file].path

(***************************************************************************)
(* Claims about the creation flow, checked under SpecFlow.                 *)
(***************************************************************************)
\* the user picked a parent in the selector of the creation
Picked == running # <<>> /\ running[1].file # NoFile

\* the name input of the creation is open
Prompting == running # <<>> /\ running[1].pc = "prompt"

\* C29: once the user has picked a parent the creation selector offers,
\* the promise of getSelectedParent is resolved and the name prompt
\* follows, for every parent offered, a SubTopic without a parent link or
\* whose direct parent declares no subfolder included.
C29_PickedParentLeadsToPrompt == Picked ~> Prompting

\* the flow rests with a picked SubTopic and a promise nobody resolves
PickLeftUnresolved ==
    /\ Picked
    /\ running[1].pc = "unresolved"
    /\ vault[running[1].file].Class = "SubTopic"

(***************************************************************************)
(* Claims about the resource-type modal, checked under SpecSettings.       *)
(***************************************************************************)
Saved == hist.op = "saveResourceType" /\ hist.status = "saved"

\* C30: a save from the resource-type modal stores every option the modal
\* shows: after a save with the Move on Parent Change toggle on, the
\* stored entry has moveOnParentChange true, so saving an existing type
\* with the toggle left as shown never turns its relocation off.
C30_SaveStoresMoveOnParentChange ==
    Saved =>
        /\ hist.moveOnParentChange => MoveOnParentChange(settings, hist.key)
        /\ (/\ hist.existingKey # NoKey
            /\ hist.moveOnParentChange = hist.shownMoveOnParentChange) =>
                (MoveOnParentChange(settings, hist.key)
                    <=> MoveOnParentChange(hist.preSettings, hist.key))

\* after a save that changed the folder name of the SubTopic type only, a
\* SubTopic given a parent with a subfolder stays where it is
NotMovedAfterSave ==
    /\ Completed
    /\ hist.pre[hist.file].Class = "SubTopic"
    /\ settings.resourceTypes["SubTopic"].folderName = "40_Moved"
    /\ FindTopicWithSubfolder(hist.pre, hist.newParent, 0).sub # ""
    /\ ~hist.plan.wantsMove
    /\ vault[hist.file].path = hist.pre[hist.file].path

====
